---- MODULE Spec2Model ----
(***************************************************************************)
(* Model of the LAYOUT_WCC client engine:                                  *)
(*   - NetworkTransport.py : NFSTransportProtocol (transaction ids, the    *)
(*     pending registry, send / timeout / reply correlation) and           *)
(*     NFSProtocolHandler (record-marking reassembly of the byte stream);  *)
(*   - ErrorRecovery.py    : ConnectionManager (the connection pool),      *)
(*     PerformanceOptimizer and LRUCache (the TTL cache) and               *)
(*     ErrorRecoveryManager (retries with backoff and metrics);            *)
(*   - XDR-Encode-Decode.py : XDREncoder and XDRDecoder (the wire form of  *)
(*     a layout descriptor), bytes being sequences of 0..255.              *)
(*                                                                         *)
(* Unsigned 32-bit values (transaction ids, length prefixes) are kept at   *)
(* their real width as a pair <<hi, lo>> of 16-bit halves, value           *)
(* hi * 65536 + lo, because TLC's integers stop at 2^31 - 1.               *)
(***************************************************************************)
EXTENDS Integers, Sequences, FiniteSets, TLC

VARIABLES
    \* ---- NFSTransportProtocol ----
    connected,        \* self._connected
    transport,        \* self._transport: "none" | "open" | "closed"
    xid_counter,      \* self._xid_counter, a u32 pair
    pending,          \* self._pending_requests: xid -> future (named by its call)
    calls,            \* the send_layout_wcc invocations made so far
    \* ---- NFSProtocolHandler ----
    buffer,           \* self._buffer
    expected_length,  \* self._expected_length (NoLength = None)
    hung,             \* data_received is spinning in its while loop
    \* ---- the peer and the byte stream ----
    wire,             \* bytes written by the peer, not yet given to data_received
    sent,             \* every byte the peer wrote on this connection
    delivered,        \* frames handed to handle_response, in order
    \* ---- ConnectionManager ----
    active_connections, \* server_id -> sequence of conn_info (dict order)
    now,              \* datetime.now(), in ticks
    created_count,    \* connection objects created so far (object identity)
    held,             \* connections currently lent to callers: <<server, conn>>
    closed,           \* connections passed to _close_connection
    last_acquire,     \* outcome of the latest _acquire_connection
    \* ---- PerformanceOptimizer / LRUCache ----
    cache,            \* self.cache.cache: key -> entry
    usage,            \* self.cache.usage: keys, least recently used first
    last_get,         \* the latest get_cached_layout: its key and its result
    \* ---- ErrorRecoveryManager ----
    retry_config,     \* self.retry_config
    operation_metrics,\* self.operation_metrics: operation id -> metrics
    executions,       \* the execute_with_recovery call of each operation id
    \* ---- XDREncoder / XDRDecoder ----
    encoder_buffer,   \* self._buffer of the encoder instance
    encoder_calls,    \* encode_layout_wcc calls made on the instance
    codec_call        \* the latest codec call: its input and its outcome

transportVars == <<connected, transport, xid_counter, pending, calls,
                   buffer, expected_length, hung, wire, sent, delivered>>
poolVars == <<active_connections, now, created_count, held, closed, last_acquire>>
cacheVars == <<cache, usage, last_get>>
retryVars == <<retry_config, operation_metrics, executions>>
codecVars == <<encoder_buffer, encoder_calls, codec_call>>
vars == <<connected, transport, xid_counter, pending, calls,
          buffer, expected_length, hung, wire, sent, delivered,
          active_connections, now, created_count, held, closed, last_acquire,
          cache, usage, last_get, retry_config, operation_metrics, executions,
          encoder_buffer, encoder_calls, codec_call>>

----------------------------------------------------------------------------
\* Bounds of the model.

\* send_layout_wcc invocations per behaviour
MaxCalls == 2
\* bytes the peer writes on one connection
MaxStream == 17

\* Frame bodies the peer writes: a reply to id 1 with a one-byte payload, a
\* reply to id 2 with an empty payload, and a body too short to hold an id.
PeerBodies == {<<0, 0, 0, 1, 7>>, <<0, 0, 0, 2>>, <<5, 6>>}
\* Counter values reached by a burst of completed sends: 0xFFFFFFFD and 0.
BurstTargets == {<<65535, 65533>>, <<0, 0>>}

\* destinations of the pool
Servers == {"s1", "s2"}
\* ConnectionManager(pool_size=2, idle_timeout=1), as in the test
PoolSize == 2
IdleTimeout == 1
\* the clock stops at MaxTime
MaxTime == 3
\* connection objects created per behaviour
MaxCreated == 3

----------------------------------------------------------------------------
\* Unsigned 32-bit helpers.

NoLength == <<>>

\* 0xFFFFFFFF, the modulus of _get_next_xid
XidModulus == <<65535, 65535>>

\* struct.pack("!I", x)
Pack(x) == <<x[1] \div 256, x[1] % 256, x[2] \div 256, x[2] % 256>>

\* struct.unpack("!I", b)[0]
Unpack(b) == <<b[1] * 256 + b[2], b[3] * 256 + b[4]>>

\* the u32 of a small natural number
U32(n) == <<n \div 65536, n % 65536>>

\* n >= e, for a natural n below 65536 and a u32 e
AtLeast(n, e) == e[1] = 0 /\ n >= e[2]

\* a < b on u32 pairs
U32Less(a, b) == a[1] < b[1] \/ (a[1] = b[1] /\ a[2] < b[2])

\* x lies in the cyclic interval (a, b] of the counter's cycle
InCycle(a, b, x) ==
    IF U32Less(a, b) THEN U32Less(a, x) /\ ~U32Less(b, x)
    ELSE U32Less(a, x) \/ ~U32Less(b, x)

\* s without its first n elements
Drop(s, n) == SubSeq(s, n + 1, Len(s))

\* s[:n]
Take(s, n) == SubSeq(s, 1, IF n < Len(s) THEN n ELSE Len(s))

----------------------------------------------------------------------------
\* NFSTransportProtocol

\* _get_next_xid: (counter + 1) % 0xFFFFFFFF
get_next_xid(counter) ==
    LET inc == IF counter[2] = 65535 THEN <<counter[1] + 1, 0>>
               ELSE <<counter[1], counter[2] + 1>>
    IN  IF inc = XidModulus THEN <<0, 0>> ELSE inc

\* self._pending_requests[xid] = future
Register(p, xid, fut) ==
    [x \in DOMAIN p \cup {xid} |-> IF x = xid THEN fut ELSE p[x]]

\* del self._pending_requests[xid]   (the key is present)
Unregister(p, xid) == [x \in DOMAIN p \ {xid} |-> p[x]]

\* future.done()
FutureDone(cs, c) == cs[c].status # "awaiting"

\* handle_response that keeps the waiter registered after resolving it
handle_response_KeepsWaiter(st, xid, data) ==
    IF xid \in DOMAIN st.pending /\ ~FutureDone(st.calls, st.pending[xid])
    THEN LET c == st.pending[xid]
         IN  [pending |-> st.pending,
              calls   |-> [st.calls EXCEPT ![c].status = "resolved",
                                           ![c].response = data],
              log     |-> Append(st.log, [xid |-> xid, data |-> data, waiter |-> c])]
    ELSE [st EXCEPT !.log = Append(st.log, [xid |-> xid, data |-> data, waiter |-> 0])]

\* handle_response that pops the entry before looking at the future
handle_response_PopsFirst(st, xid, data) ==
    IF xid \in DOMAIN st.pending
    THEN LET c == st.pending[xid]
         IN  IF ~FutureDone(st.calls, c)
             THEN [pending |-> Unregister(st.pending, xid),
                   calls   |-> [st.calls EXCEPT ![c].status = "resolved",
                                                ![c].response = data],
                   log     |-> Append(st.log, [xid |-> xid, data |-> data, waiter |-> c])]
             ELSE [pending |-> Unregister(st.pending, xid),
                   calls   |-> st.calls,
                   log     |-> Append(st.log, [xid |-> xid, data |-> data, waiter |-> 0])]
    ELSE [st EXCEPT !.log = Append(st.log, [xid |-> xid, data |-> data, waiter |-> 0])]

\* handle_response(xid, data) on the state st = [pending, calls, log]
handle_response(st, xid, data) ==
    IF xid \in DOMAIN st.pending /\ ~FutureDone(st.calls, st.pending[xid])
    THEN LET c == st.pending[xid]
         IN  [pending |-> Unregister(st.pending, xid),
              calls   |-> [st.calls EXCEPT ![c].status = "resolved",
                                           ![c].response = data],
              log     |-> Append(st.log, [xid |-> xid, data |-> data, waiter |-> c])]
    ELSE [st EXCEPT !.log = Append(st.log, [xid |-> xid, data |-> data, waiter |-> 0])]

\* _process_message(message): a message shorter than 4 bytes makes
\* struct.unpack raise, which is caught and logged
process_message(st, message) ==
    IF Len(message) < 4 THEN st
    ELSE handle_response(st, Unpack(Take(message, 4)), Drop(message, 4))

\* The while loop of data_received on (buffer, expected_length); msgs are
\* the messages handed to _process_message so far.  When the announced
\* payload is incomplete and at least 4 bytes are buffered, an iteration
\* changes nothing and the loop condition stays true: the loop never ends.
RECURSIVE ReceiveLoop(_, _, _)
ReceiveLoop(buf, exp, msgs) ==
    IF Len(buf) < 4
    THEN [buffer |-> buf, expected_length |-> exp, msgs |-> msgs, hung |-> FALSE]
    ELSE LET e == IF exp = NoLength THEN Unpack(Take(buf, 4)) ELSE exp
             b == IF exp = NoLength THEN Drop(buf, 4) ELSE buf
         IN  IF AtLeast(Len(b), e)
             THEN ReceiveLoop(Drop(b, e[2]), NoLength, Append(msgs, Take(b, e[2])))
             ELSE IF Len(b) >= 4
                  THEN [buffer |-> b, expected_length |-> e, msgs |-> msgs, hung |-> TRUE]
                  ELSE [buffer |-> b, expected_length |-> e, msgs |-> msgs, hung |-> FALSE]

\* the messages of one event, processed in order
RECURSIVE ProcessAll(_, _)
ProcessAll(st, msgs) ==
    IF msgs = <<>> THEN st
    ELSE ProcessAll(process_message(st, Head(msgs)), Tail(msgs))

\* connect(): a new transport and a new NFSProtocolHandler.  The model
\* follows the instance through one connection.
Connect ==
    /\ transport = "none"
    /\ ~hung
    /\ connected' = TRUE
    /\ transport' = "open"
    /\ buffer' = <<>>
    /\ expected_length' = NoLength
    /\ wire' = <<>>
    /\ sent' = <<>>
    /\ delivered' = <<>>
    /\ UNCHANGED <<xid_counter, pending, calls, hung>>
    /\ UNCHANGED poolVars
    /\ UNCHANGED <<cacheVars, retryVars, codecVars>>

\* close() without its `if self._transport` test
Close_Unguarded ==
    /\ ~hung
    /\ transport' = "closed"
    /\ connected' = FALSE
    /\ UNCHANGED <<xid_counter, pending, calls, buffer, expected_length, hung,
                   wire, sent, delivered>>
    /\ UNCHANGED poolVars
    /\ UNCHANGED <<cacheVars, retryVars, codecVars>>

\* close(): nothing happens while self._transport is None
Close ==
    /\ ~hung
    /\ IF transport # "none"
       THEN /\ transport' = "closed"
            /\ connected' = FALSE
       ELSE UNCHANGED <<transport, connected>>
    /\ UNCHANGED <<xid_counter, pending, calls, buffer, expected_length, hung,
                   wire, sent, delivered>>
    /\ UNCHANGED poolVars
    /\ UNCHANGED <<cacheVars, retryVars, codecVars>>

\* send_layout_wcc up to its await: the guard, the id, the waiter, the write.
\* Not connected, it raises before anything is changed.
SendStart ==
    /\ ~hung
    /\ Len(calls) < MaxCalls
    /\ connected
    /\ LET c == Len(calls) + 1
           xid == get_next_xid(xid_counter)
       IN  /\ xid_counter' = xid
           /\ pending' = Register(pending, xid, c)
           /\ calls' = Append(calls, [xid |-> xid, status |-> "awaiting",
                                      response |-> <<>>])
    /\ UNCHANGED <<connected, transport, buffer, expected_length, hung,
                   wire, sent, delivered>>
    /\ UNCHANGED poolVars
    /\ UNCHANGED <<cacheVars, retryVars, codecVars>>

\* A run of send_layout_wcc calls, each timing out before the next starts,
\* taken as one step: each registers and deletes its own id, so the run only
\* moves the counter.  No id of the run is that of a registered waiter.
SendBurst(target) ==
    /\ ~hung
    /\ connected
    /\ target # xid_counter
    /\ \A x \in DOMAIN pending : ~InCycle(xid_counter, target, x)
    /\ xid_counter' = target
    /\ UNCHANGED <<connected, transport, pending, calls, buffer, expected_length,
                   hung, wire, sent, delivered>>
    /\ UNCHANGED poolVars
    /\ UNCHANGED <<cacheVars, retryVars, codecVars>>

\* asyncio.wait_for: the timeout elapses before the future is done; the
\* future is cancelled
TimeoutFire(c) ==
    /\ ~hung
    /\ calls[c].status = "awaiting"
    /\ calls' = [calls EXCEPT ![c].status = "cancelled"]
    /\ UNCHANGED <<connected, transport, xid_counter, pending, buffer,
                   expected_length, hung, wire, sent, delivered>>
    /\ UNCHANGED poolVars
    /\ UNCHANGED <<cacheVars, retryVars, codecVars>>

\* except asyncio.TimeoutError: del self._pending_requests[xid]; raise
TimeoutRaise(c) ==
    /\ ~hung
    /\ calls[c].status = "cancelled"
    /\ IF calls[c].xid \in DOMAIN pending
       THEN /\ pending' = Unregister(pending, calls[c].xid)
            /\ calls' = [calls EXCEPT ![c].status = "timeout_error"]
       ELSE /\ pending' = pending
            /\ calls' = [calls EXCEPT ![c].status = "key_error"]
    /\ UNCHANGED <<connected, transport, xid_counter, buffer, expected_length,
                   hung, wire, sent, delivered>>
    /\ UNCHANGED poolVars
    /\ UNCHANGED <<cacheVars, retryVars, codecVars>>

\* wait_for returns the result of the future: return xid, response
SendReturn(c) ==
    /\ ~hung
    /\ calls[c].status = "resolved"
    /\ calls' = [calls EXCEPT ![c].status = "returned"]
    /\ UNCHANGED <<connected, transport, xid_counter, pending, buffer,
                   expected_length, hung, wire, sent, delivered>>
    /\ UNCHANGED poolVars
    /\ UNCHANGED <<cacheVars, retryVars, codecVars>>

\* the peer writes one frame: 4-byte length, then the body (followed while
\* the handler still reads)
PeerWrite(body) ==
    /\ ~hung
    /\ transport = "open"
    /\ Len(sent) + 4 + Len(body) <= MaxStream
    /\ wire' = wire \o Pack(U32(Len(body))) \o body
    /\ sent' = sent \o Pack(U32(Len(body))) \o body
    /\ UNCHANGED <<connected, transport, xid_counter, pending, calls, buffer,
                   expected_length, hung, delivered>>
    /\ UNCHANGED poolVars
    /\ UNCHANGED <<cacheVars, retryVars, codecVars>>

\* data_received(data) with the next n bytes of the stream
data_received(n) ==
    /\ ~hung
    /\ transport = "open"
    /\ n \in 1..Len(wire)
    /\ LET r  == ReceiveLoop(buffer \o Take(wire, n), expected_length, <<>>)
           st == ProcessAll([pending |-> pending, calls |-> calls, log |-> delivered],
                            r.msgs)
       IN  /\ buffer' = r.buffer
           /\ expected_length' = r.expected_length
           /\ hung' = r.hung
           /\ pending' = st.pending
           /\ calls' = st.calls
           /\ delivered' = st.log
    /\ wire' = Drop(wire, n)
    /\ UNCHANGED <<connected, transport, xid_counter, sent>>
    /\ UNCHANGED poolVars
    /\ UNCHANGED <<cacheVars, retryVars, codecVars>>

----------------------------------------------------------------------------
\* ConnectionManager.  A pool is the dict of one server_id in insertion
\* order: a sequence of conn_info records.  A connection object is named by
\* the number of its creation.

\* self.active_connections.get(server_id, {}): a server without entry has
\* the empty pool
ServerPool(ac, s) == ac[s]

\* _is_connection_expired with >= in place of >
is_connection_expired_AtTimeout(info, t) ==
    IF ~info.in_use THEN t - info.last_used >= IdleTimeout ELSE FALSE

\* _is_connection_expired(conn_info) at time t
is_connection_expired(info, t) ==
    IF ~info.in_use THEN t - info.last_used > IdleTimeout ELSE FALSE

\* the scan without its test of the in_use flag
FirstAvailable_IgnoresInUse(pool, t) ==
    IF \E i \in 1..Len(pool) : ~is_connection_expired(pool[i], t)
    THEN CHOOSE i \in 1..Len(pool) :
            /\ ~is_connection_expired(pool[i], t)
            /\ \A k \in 1..(i - 1) : is_connection_expired(pool[k], t)
    ELSE 0

\* the position at which the scan of _acquire_connection returns: the first
\* connection that is not in use and not expired; 0 when the scan ends
FirstAvailable(pool, t) ==
    IF \E i \in 1..Len(pool) : ~pool[i].in_use /\ ~is_connection_expired(pool[i], t)
    THEN CHOOSE i \in 1..Len(pool) :
            /\ ~pool[i].in_use /\ ~is_connection_expired(pool[i], t)
            /\ \A k \in 1..(i - 1) :
                  pool[k].in_use \/ is_connection_expired(pool[k], t)
    ELSE 0

\* the connections the scan closes: the expired ones it meets before it
\* returns (all of them when it runs to the end)
ClosedByScan(pool, t) ==
    LET stop == IF FirstAvailable(pool, t) = 0 THEN Len(pool) + 1
                ELSE FirstAvailable(pool, t)
    IN  {pool[k].connection : k \in {j \in 1..(stop - 1) :
                                        is_connection_expired(pool[j], t)}}

\* the capacity test with <= in place of <
HasSpareCapacity_OffByOne(pool) == Len(pool) <= PoolSize

\* len(server_pool) < self.pool_size
HasSpareCapacity(pool) == Len(pool) < PoolSize

\* _acquire_connection(server_id), called by get_connection
Acquire(s) ==
    LET pool == ServerPool(active_connections, s)
        i    == FirstAvailable(pool, now)
    IN  /\ closed' = closed \cup ClosedByScan(pool, now)
        /\ IF i # 0
           THEN /\ active_connections' =
                      [active_connections EXCEPT ![s] =
                          [pool EXCEPT ![i].in_use = TRUE, ![i].last_used = now]]
                /\ held' = held \cup {<<s, pool[i].connection>>}
                /\ last_acquire' = [kind |-> "reused", server |-> s,
                                    conn |-> pool[i].connection]
                /\ UNCHANGED created_count
           ELSE IF HasSpareCapacity(pool)
           THEN /\ created_count < MaxCreated
                /\ created_count' = created_count + 1
                /\ active_connections' =
                      [active_connections EXCEPT ![s] =
                          Append(pool, [connection |-> created_count + 1,
                                        in_use |-> TRUE,
                                        created |-> now,
                                        last_used |-> now])]
                /\ held' = held \cup {<<s, created_count + 1>>}
                /\ last_acquire' = [kind |-> "created", server |-> s,
                                    conn |-> created_count + 1]
           ELSE /\ last_acquire' = [kind |-> "exhausted", server |-> s, conn |-> 0]
                /\ UNCHANGED <<active_connections, created_count, held>>
        /\ UNCHANGED now
        /\ UNCHANGED transportVars
        /\ UNCHANGED <<cacheVars, retryVars, codecVars>>

\* _release_connection that timestamps the connection but leaves it in use
Release_KeepsInUse(s, conn) ==
    /\ <<s, conn>> \in held
    /\ held' = held \ {<<s, conn>>}
    /\ LET pool == ServerPool(active_connections, s)
       IN  IF \E i \in 1..Len(pool) : pool[i].connection = conn
           THEN LET i == CHOOSE k \in 1..Len(pool) : pool[k].connection = conn
                IN  active_connections' =
                        [active_connections EXCEPT ![s] =
                            [pool EXCEPT ![i].last_used = now]]
           ELSE UNCHANGED active_connections
    /\ UNCHANGED <<now, created_count, closed, last_acquire>>
    /\ UNCHANGED transportVars
    /\ UNCHANGED <<cacheVars, retryVars, codecVars>>

\* _release_connection(server_id, connection), called from the finally of
\* get_connection when the scoped block ends, normally or by an exception
Release(s, conn) ==
    /\ <<s, conn>> \in held
    /\ held' = held \ {<<s, conn>>}
    /\ LET pool == ServerPool(active_connections, s)
       IN  IF \E i \in 1..Len(pool) : pool[i].connection = conn
           THEN LET i == CHOOSE k \in 1..Len(pool) : pool[k].connection = conn
                IN  active_connections' =
                        [active_connections EXCEPT ![s] =
                            [pool EXCEPT ![i].in_use = FALSE, ![i].last_used = now]]
           ELSE UNCHANGED active_connections
    /\ UNCHANGED <<now, created_count, closed, last_acquire>>
    /\ UNCHANGED transportVars
    /\ UNCHANGED <<cacheVars, retryVars, codecVars>>

\* cleanup that closes and forgets only the idle connections
Cleanup_SparesInUse ==
    /\ closed' = closed \cup
          UNION {{active_connections[s][i].connection :
                     i \in {j \in 1..Len(active_connections[s]) :
                                ~active_connections[s][j].in_use}} : s \in Servers}
    /\ active_connections' =
          [s \in Servers |-> SelectSeq(active_connections[s], LAMBDA info : info.in_use)]
    /\ UNCHANGED <<now, created_count, held, last_acquire>>
    /\ UNCHANGED transportVars
    /\ UNCHANGED <<cacheVars, retryVars, codecVars>>

\* cleanup()
Cleanup ==
    /\ closed' = closed \cup
          UNION {{active_connections[s][i].connection :
                     i \in 1..Len(active_connections[s])} : s \in Servers}
    /\ active_connections' = [s \in Servers |-> <<>>]
    /\ UNCHANGED <<now, created_count, held, last_acquire>>
    /\ UNCHANGED transportVars
    /\ UNCHANGED <<cacheVars, retryVars, codecVars>>

\* the clock advances
Tick ==
    /\ now < MaxTime
    /\ now' = now + 1
    /\ UNCHANGED <<active_connections, created_count, held, closed, last_acquire>>
    /\ UNCHANGED transportVars
    /\ UNCHANGED <<cacheVars, retryVars, codecVars>>

----------------------------------------------------------------------------
\* PerformanceOptimizer and LRUCache (ErrorRecovery.py).  The cache shares the
\* clock `now` with the pool.  Layout ids are numbered; a stored entry is the
\* dictionary {'data', 'timestamp', 'ttl'} written by cache_layout.

CacheCapacity == 2                      \* LRUCache(capacity)
Keys == 1..(CacheCapacity + 1)          \* layout ids offered to the cache
Puts == {<<"v1", 1>>, <<"v2", 2>>}      \* <<layout_data, ttl>> offered to cache_layout
NoValue == "None"                       \* Python's None

\* a list.remove(key) that leaves the list as it is
ListRemove_KeepsKey(seq, k) == seq

\* list.remove(key): drops the first occurrence
RECURSIVE ListRemove(_, _)
ListRemove(seq, k) ==
    IF seq = <<>> THEN <<>>
    ELSE IF Head(seq) = k THEN Tail(seq)
    ELSE <<Head(seq)>> \o ListRemove(Tail(seq), k)

\* usage.pop(0): the popped key and what is left
PopFirst_TakesLast(u) ==
    [item |-> u[Len(u)], rest |-> SubSeq(u, 1, Len(u) - 1)]

PopFirst(u) ==
    [item |-> Head(u), rest |-> Tail(u)]

\* len(self.cache) >= self.capacity
MustEvict_OffByOne(c) == Cardinality(DOMAIN c) > CacheCapacity

MustEvict(c) == Cardinality(DOMAIN c) >= CacheCapacity

\* _is_expired(entry): age.total_seconds() > entry['ttl']
is_expired_AtTtl(entry) == now - entry.timestamp >= entry.ttl

is_expired(entry) == now - entry.timestamp > entry.ttl

\* LRUCache.get(key): the recency list it leaves behind ...
LRUCache_get_usage(k) ==
    IF k \in DOMAIN cache THEN Append(ListRemove(usage, k), k) ELSE usage

\* ... and whether it returns an entry (self.cache[key]) or None
LRUCache_get_found(k) == k \in DOMAIN cache

\* LRUCache.__setitem__(key, value): the table and the recency list it leaves
LRUCache_setitem(k, value) ==
    LET present == k \in DOMAIN cache
        evict   == ~present /\ MustEvict(cache)
        popped  == PopFirst(usage)
        u1 == IF present THEN ListRemove(usage, k)
              ELSE IF evict THEN popped.rest ELSE usage
        c1 == IF evict
              THEN [x \in DOMAIN cache \ {popped.item} |-> cache[x]]
              ELSE cache
    IN  [cache |-> [x \in DOMAIN c1 \cup {k} |-> IF x = k THEN value ELSE c1[x]],
         usage |-> Append(u1, k)]

\* cache_layout(layout_id, layout_data, ttl)
cache_layout(k, v, ttl) ==
    LET r == LRUCache_setitem(k, [data |-> v, timestamp |-> now, ttl |-> ttl])
    IN  /\ cache' = r.cache
        /\ usage' = r.usage
        /\ UNCHANGED last_get
        /\ UNCHANGED <<transportVars, poolVars, retryVars, codecVars>>

\* a get_cached_layout that deletes the entry it finds expired
get_cached_layout_Purges(k) ==
    LET dead == LRUCache_get_found(k) /\ is_expired(cache[k])
    IN  /\ usage' = IF dead THEN ListRemove(usage, k) ELSE LRUCache_get_usage(k)
        /\ cache' = IF dead THEN [x \in DOMAIN cache \ {k} |-> cache[x]] ELSE cache
        /\ last_get' = [key |-> k,
                        result |-> IF LRUCache_get_found(k) /\ ~dead
                                   THEN cache[k].data ELSE NoValue]
        /\ UNCHANGED <<transportVars, poolVars, retryVars, codecVars>>

\* get_cached_layout(layout_id)
get_cached_layout(k) ==
    /\ usage' = LRUCache_get_usage(k)
    /\ last_get' = [key |-> k,
                    result |-> IF LRUCache_get_found(k) /\ ~is_expired(cache[k])
                               THEN cache[k].data ELSE NoValue]
    /\ UNCHANGED cache
    /\ UNCHANGED <<transportVars, poolVars, retryVars, codecVars>>

----------------------------------------------------------------------------
\* ErrorRecoveryManager (ErrorRecovery.py).  Delays are whole time units.  An
\* error or a result is identified by the invocation that produced it,
\* <<kind, n>> for the n-th invocation of the call, so that the error of one
\* attempt can be told from the error of another.  The names of the except
\* clause (NFSTransportError, NFSStateError) are taken as bound to the
\* transport error class and to a connection-state error class.

OpIds == {"op1", "op2"}                 \* operation ids
OutcomeKinds == {"ok", "transport", "state", "other"}   \* what one invocation does
RetryConfigs ==                         \* RetryConfig values given to the manager
    { [max_retries |-> 3, base_delay |-> 1, exponential_base |-> 2, max_delay |-> 30],
      [max_retries |-> 3, base_delay |-> 2, exponential_base |-> 3, max_delay |-> 5],
      [max_retries |-> 1, base_delay |-> 1, exponential_base |-> 2, max_delay |-> 30],
      [max_retries |-> 0, base_delay |-> 1, exponential_base |-> 2, max_delay |-> 30] }
NoConfig ==                             \* before ErrorRecoveryManager.__init__
    [max_retries |-> -1, base_delay |-> 0, exponential_base |-> 0, max_delay |-> 0]
NoTime == -1                            \* end_time = None
NoError == <<"None", 0>>                \* None as an error text or a returned value
IdleExecution ==
    [pc |-> "idle", attempt |-> 0, attempts |-> <<>>, sleeps |-> <<>>,
     outcome |-> [kind |-> "none", value |-> NoError]]

RECURSIVE Pow(_, _)
Pow(b, n) == IF n = 0 THEN 1 ELSE b * Pow(b, n - 1)

Min(a, b) == IF a <= b THEN a ELSE b

\* except (NFSTransportError, NFSStateError)
IsTransient_Everything(kind) == kind # "ok"

IsTransient(kind) == kind \in {"transport", "state"}

\* attempt == self.retry_config.max_retries - 1
IsLastAttempt_OnePast(a) == a = retry_config.max_retries

IsLastAttempt(a) == a = retry_config.max_retries - 1

\* delay = min(base_delay * exponential_base ** attempt, max_delay)
BackoffDelay_Uncapped(a) ==
    retry_config.base_delay * Pow(retry_config.exponential_base, a)

BackoffDelay(a) ==
    Min(retry_config.base_delay * Pow(retry_config.exponential_base, a),
        retry_config.max_delay)

\* metrics.retries += 1
RecordFailure_Forgets(m) == m

RecordFailure(m) == [m EXCEPT !.retries = @ + 1]

\* metrics.success = True
RecordSuccess(m) == [m EXCEPT !.success = TRUE]

\* finally: metrics.end_time = datetime.now()
Finally(m) == [m EXCEPT !.end_time = now]

SetMetrics(id, m) ==
    [x \in DOMAIN operation_metrics \cup {id} |->
        IF x = id THEN m ELSE operation_metrics[x]]

\* ErrorRecoveryManager.__init__(retry_config)
NewManager(cfg) ==
    /\ retry_config = NoConfig
    /\ retry_config' = cfg
    /\ UNCHANGED <<operation_metrics, executions>>
    /\ UNCHANGED <<transportVars, poolVars, cacheVars, codecVars>>

\* execute_with_recovery(operation_id, operation) up to its first await: the
\* metrics record is created and registered, and the loop is entered.  With
\* range(0) the loop body never runs and the call falls through to the end.
ExecuteStart(id) ==
    LET m == [start_time |-> now, end_time |-> NoTime, retries |-> 0,
              success |-> FALSE, error |-> NoError]
    IN  /\ retry_config # NoConfig
        /\ executions[id].pc \in {"idle", "done"}
        /\ IF retry_config.max_retries > 0
           THEN /\ operation_metrics' = SetMetrics(id, m)
                /\ executions' = [executions EXCEPT ![id] =
                       [IdleExecution EXCEPT !.pc = "calling"]]
           ELSE /\ operation_metrics' = SetMetrics(id, Finally(m))
                /\ executions' = [executions EXCEPT ![id] =
                       [IdleExecution EXCEPT !.pc = "done",
                           !.outcome = [kind |-> "returned", value |-> NoError]]]
        /\ UNCHANGED retry_config
        /\ UNCHANGED <<transportVars, poolVars, cacheVars, codecVars>>

\* `await operation()` completes: the invocation returns or raises
OperationEnds(id, kind) ==
    LET e == executions[id]
        n == Len(e.attempts) + 1
        m == operation_metrics[id]
        tried == [e EXCEPT !.attempts = Append(@, kind)]
    IN  /\ e.pc = "calling"
        /\ IF kind = "ok"
           THEN /\ operation_metrics' = SetMetrics(id, Finally(RecordSuccess(m)))
                /\ executions' = [executions EXCEPT ![id] =
                       [tried EXCEPT !.pc = "done",
                           !.outcome = [kind |-> "returned", value |-> <<"result", n>>]]]
           ELSE IF IsTransient(kind)
           THEN IF IsLastAttempt(e.attempt)
                THEN /\ operation_metrics' = SetMetrics(id,
                            Finally([RecordFailure(m) EXCEPT !.error = <<kind, n>>]))
                     /\ executions' = [executions EXCEPT ![id] =
                            [tried EXCEPT !.pc = "done",
                                !.outcome = [kind |-> "raised", value |-> <<kind, n>>]]]
                ELSE /\ operation_metrics' = SetMetrics(id, RecordFailure(m))
                     /\ executions' = [executions EXCEPT ![id] =
                            [tried EXCEPT !.pc = "sleeping",
                                !.sleeps = Append(@, BackoffDelay(e.attempt))]]
           ELSE /\ operation_metrics' = SetMetrics(id, Finally(m))
                /\ executions' = [executions EXCEPT ![id] =
                       [tried EXCEPT !.pc = "done",
                           !.outcome = [kind |-> "raised", value |-> <<kind, n>>]]]
        /\ UNCHANGED retry_config
        /\ UNCHANGED <<transportVars, poolVars, cacheVars, codecVars>>

\* `await asyncio.sleep(delay)` completes: the loop takes its next attempt, or
\* ends when the range is used up
SleepEnds(id) ==
    LET e == executions[id]
    IN  /\ e.pc = "sleeping"
        /\ IF e.attempt + 1 < retry_config.max_retries
           THEN /\ executions' = [executions EXCEPT ![id] =
                       [e EXCEPT !.pc = "calling", !.attempt = @ + 1]]
                /\ UNCHANGED operation_metrics
           ELSE /\ executions' = [executions EXCEPT ![id] =
                       [e EXCEPT !.pc = "done",
                           !.outcome = [kind |-> "returned", value |-> NoError]]]
                /\ operation_metrics' =
                       SetMetrics(id, Finally(operation_metrics[id]))
        /\ UNCHANGED retry_config
        /\ UNCHANGED <<transportVars, poolVars, cacheVars, codecVars>>

----------------------------------------------------------------------------
\* XDREncoder and XDRDecoder (XDR-Encode-Decode.py).  Bytes are sequences of
\* numbers 0..255.  A Python str is a record [text |-> code points], so that
\* text and bytes stay different kinds of value; code points stay below 2048
\* and integers below 2^31.

LAYOUT_WCC == 1                         \* NFSType
DEVICEID == 2
STATEID == 3
FILEHANDLE == 4
ATTRIBUTE == 5
DeviceIdWidth == 16                     \* _encode_fixed_opaque(..., 16)
StateOtherWidth == 12                   \* _encode_fixed_opaque(..., 12)

Str(codes) == [text |-> codes]

Zeros(n) == [i \in 1..n |-> 0]

\* str.encode(): UTF-8
RECURSIVE Utf8(_)
Utf8(codes) ==
    IF codes = <<>> THEN <<>>
    ELSE LET c == Head(codes)
         IN  (IF c < 128 THEN <<c>> ELSE <<192 + (c \div 64), 128 + (c % 64)>>)
                 \o Utf8(Tail(codes))

\* bytes.decode(): the code points, or no text when the bytes are not UTF-8
RECURSIVE Utf8Decode(_)
Utf8Decode(b) ==
    IF b = <<>> THEN [ok |-> TRUE, codes |-> <<>>]
    ELSE IF b[1] < 128
    THEN LET r == Utf8Decode(Tail(b))
         IN  [ok |-> r.ok, codes |-> <<b[1]>> \o r.codes]
    ELSE IF b[1] >= 194 /\ b[1] <= 223 /\ Len(b) >= 2 /\ b[2] >= 128 /\ b[2] <= 191
    THEN LET r == Utf8Decode(Tail(Tail(b)))
         IN  [ok |-> r.ok, codes |-> <<(b[1] - 192) * 64 + (b[2] - 128)>> \o r.codes]
    ELSE [ok |-> FALSE, codes |-> <<>>]

\* bytes.hex(): two lower-case hexadecimal digits per byte
HexDigit(d) == IF d < 10 THEN 48 + d ELSE 87 + d

RECURSIVE Hex(_)
Hex(b) ==
    IF b = <<>> THEN <<>>
    ELSE <<HexDigit(b[1] \div 16), HexDigit(b[1] % 16)>> \o Hex(Tail(b))

\* bytes.ljust(width, b'\0')
LJust(b, width) == IF Len(b) >= width THEN b ELSE b \o Zeros(width - Len(b))

\* calculate without its outer `% 4`: a length that is aligned gets 4 bytes
calculate_Ceiling(length) == 4 - (length % 4)

\* XDRPadding.calculate(length)
calculate(length) == (4 - (length % 4)) % 4

\* The encoder's steps take the buffer so far and give [ok, buffer]; a step
\* after a failed one is not run.
Then(r, F(_)) ==
    CHOOSE y \in {IF x.ok THEN F(x.buffer) ELSE x : x \in {r}} : TRUE

Extend(buf, bytes) == [ok |-> TRUE, buffer |-> buf \o bytes]

\* _encode_uint32 / _encode_uint64
encode_uint32(buf, value) == Extend(buf, Pack(U32(value)))

encode_uint64(buf, value) == Extend(buf, <<0, 0, 0, 0>> \o Pack(U32(value)))

\* _encode_string
encode_string(buf, value) ==
    LET encoded == Utf8(value.text)
    IN  Extend(buf, Pack(U32(Len(encoded))) \o encoded
                        \o Zeros(calculate(Len(encoded))))

\* _encode_fixed_opaque that pads or cuts the data to the width
encode_fixed_opaque_Pads(buf, data, length) ==
    Extend(buf, Take(LJust(data, length), length))

\* _encode_fixed_opaque: raises XDRError unless len(data) == length
encode_fixed_opaque(buf, data, length) ==
    IF Len(data) # length THEN [ok |-> FALSE, buffer |-> buf]
    ELSE Extend(buf, data)

\* _encode_variable_opaque
encode_variable_opaque(buf, data) ==
    Extend(buf, Pack(U32(Len(data))) \o data \o Zeros(calculate(Len(data))))

\* _encode_deviceid
encode_deviceid(buf, device_id) ==
    Then(encode_uint32(buf, DEVICEID),
         LAMBDA b : encode_fixed_opaque(b, Utf8(device_id.text), DeviceIdWidth))

\* _encode_stateid
encode_stateid(buf, state_id) ==
    Then(Then(encode_uint32(buf, STATEID),
              LAMBDA b : encode_uint32(b, state_id.seqid)),
         LAMBDA b : encode_fixed_opaque(b, LJust(state_id.other, StateOtherWidth),
                                        StateOtherWidth))

\* _encode_filehandle
encode_filehandle(buf, handle) ==
    Then(encode_uint32(buf, FILEHANDLE),
         LAMBDA b : encode_variable_opaque(b, Utf8(handle.text)))

\* _calculate_attribute_mask
calculate_attribute_mask(attrs) ==
    (IF "size" \in DOMAIN attrs THEN 1 ELSE 0)
        + (IF "mtime" \in DOMAIN attrs THEN 2 ELSE 0)

\* _encode_attributes
encode_attributes(buf, attrs) ==
    LET b1 == encode_uint32(buf, ATTRIBUTE)
        b2 == Then(b1, LAMBDA b : encode_uint32(b, calculate_attribute_mask(attrs)))
        b3 == IF "size" \in DOMAIN attrs
              THEN Then(b2, LAMBDA b : encode_uint64(b, attrs["size"])) ELSE b2
    IN  IF "mtime" \in DOMAIN attrs
        THEN Then(b3, LAMBDA b : encode_uint64(b, attrs["mtime"])) ELSE b3

\* the loop of _encode_array over file handles
RECURSIVE encode_filehandles(_, _)
encode_filehandles(r, handles) ==
    IF handles = <<>> THEN r
    ELSE encode_filehandles(Then(r, LAMBDA b : encode_filehandle(b, Head(handles))),
                        Tail(handles))

\* _encode_data_server
encode_data_server(buf, server) ==
    LET b1 == encode_deviceid(buf, server.device_id)
        b2 == Then(b1, LAMBDA b : encode_stateid(b, server.state_id))
        b3 == Then(b2, LAMBDA b : encode_uint32(b, Len(server.file_handles)))
        b4 == encode_filehandles(b3, server.file_handles)
    IN  Then(b4, LAMBDA b : encode_attributes(b, server.attributes))

\* the loop of _encode_array over data servers
RECURSIVE encode_data_servers(_, _)
encode_data_servers(r, servers) ==
    IF servers = <<>> THEN r
    ELSE encode_data_servers(Then(r, LAMBDA b : encode_data_server(b, Head(servers))),
                        Tail(servers))

\* _encode_mirror
encode_mirror(buf, mirror) ==
    LET b1 == encode_string(buf, mirror.mirror_id)
        b2 == Then(b1, LAMBDA b : encode_uint32(b, Len(mirror.data_servers)))
    IN  encode_data_servers(b2, mirror.data_servers)

\* the loop of _encode_array over mirrors
RECURSIVE encode_mirrors(_, _)
encode_mirrors(r, mirrors) ==
    IF mirrors = <<>> THEN r
    ELSE encode_mirrors(Then(r, LAMBDA b : encode_mirror(b, Head(mirrors))),
                        Tail(mirrors))

\* encode_layout_wcc(layout) on an encoder whose buffer is buf: the buffer it
\* leaves, and the bytes returned (bytes(self._buffer)) or XDRError raised
encode_layout_wcc(buf, layout) ==
    LET b1 == encode_uint32(buf, LAYOUT_WCC)
        b2 == Then(b1, LAMBDA b : encode_uint32(b, Len(layout.mirrors)))
        b3 == encode_mirrors(b2, layout.mirrors)
    IN  IF b3.ok
        THEN [status |-> "returned", bytes |-> b3.buffer, buffer |-> b3.buffer]
        ELSE [status |-> "XDRError", bytes |-> <<>>, buffer |-> b3.buffer]

\* The decoder's steps take the data and the read offset and give
\* [ok, value, offset, error]: the value read and the offset after it, or the
\* message of the XDRError raised and the offset at that moment.
Ok(v, off) == [ok |-> TRUE, value |-> v, offset |-> off, error |-> ""]

Fail(msg, off) == [ok |-> FALSE, value |-> <<>>, offset |-> off, error |-> msg]

EndOfData == "Unexpected end of data"

\* a declared u32 length or count as a number: one that cannot be met by
\* data of n bytes is cut to n + 1, which no read and no array can meet either
Declared(p, n) == IF p[1] > 0 \/ p[2] > n THEN n + 1 ELSE p[2]

\* the number held by big-endian bytes
RECURSIVE Num(_)
Num(b) == IF b = <<>> THEN 0 ELSE Num(SubSeq(b, 1, Len(b) - 1)) * 256 + b[Len(b)]

\* _read_bytes(length)
read_bytes(data, off, length) ==
    IF off + length > Len(data) THEN Fail(EndOfData, off)
    ELSE Ok(SubSeq(data, off + 1, off + length), off + length)

\* _skip_bytes(length)
skip_bytes(data, off, length) ==
    IF off + length > Len(data) THEN Fail(EndOfData, off)
    ELSE Ok(<<>>, off + length)

\* A step that follows a successful one; the result r of the earlier step is
\* evaluated once and a failure is passed on (the exception propagates).
AndThen(r, F(_)) == CHOOSE y \in {IF x.ok THEN F(x) ELSE x : x \in {r}} : TRUE

\* _decode_uint32: the value as a u32 pair
decode_uint32(data, off) ==
    AndThen(read_bytes(data, off, 4), LAMBDA r :
        IF Len(r.value) # 4 THEN Fail("struct.error", r.offset)
        ELSE Ok(Unpack(r.value), r.offset))

\* _decode_uint64
decode_uint64(data, off) ==
    AndThen(read_bytes(data, off, 8), LAMBDA r :
        IF Len(r.value) # 8 THEN Fail("struct.error", r.offset)
        ELSE Ok(Num(r.value), r.offset))

\* _decode_variable_opaque
decode_variable_opaque(data, off) ==
    AndThen(decode_uint32(data, off), LAMBDA len :
    AndThen(read_bytes(data, len.offset, Declared(len.value, Len(data))), LAMBDA d :
    AndThen(skip_bytes(data, d.offset,
                       calculate(Declared(len.value, Len(data)))), LAMBDA pad :
        Ok(d.value, pad.offset))))

\* _decode_string
decode_string(data, off) ==
    AndThen(decode_variable_opaque(data, off), LAMBDA r :
    AndThen([ok |-> TRUE, text |-> Utf8Decode(r.value)], LAMBDA u :
        IF ~u.text.ok THEN Fail("UnicodeDecodeError", r.offset)
        ELSE Ok(Str(u.text.codes), r.offset)))

\* _decode_fixed_opaque(length)
decode_fixed_opaque(data, off, length) == read_bytes(data, off, length)

\* the check of a leading type tag
decode_tag(data, off, tag, msg) ==
    AndThen(decode_uint32(data, off), LAMBDA r :
        IF r.value # U32(tag) THEN Fail(msg, r.offset) ELSE r)

\* _decode_deviceid
decode_deviceid(data, off) ==
    AndThen(decode_tag(data, off, DEVICEID, "Invalid device ID type"), LAMBDA t :
    AndThen(decode_fixed_opaque(data, t.offset, DeviceIdWidth), LAMBDA d :
        Ok(Str(Hex(d.value)), d.offset)))

\* _decode_stateid
decode_stateid(data, off) ==
    AndThen(decode_tag(data, off, STATEID, "Invalid state ID type"), LAMBDA t :
    AndThen(decode_uint32(data, t.offset), LAMBDA q :
    AndThen(decode_fixed_opaque(data, q.offset, StateOtherWidth), LAMBDA o :
        Ok([seqid |-> Num(Pack(q.value)), other |-> o.value], o.offset))))

\* _decode_filehandle
decode_filehandle(data, off) ==
    AndThen(decode_tag(data, off, FILEHANDLE, "Invalid file handle type"), LAMBDA t :
    AndThen(decode_variable_opaque(data, t.offset), LAMBDA d :
        Ok(Str(Hex(d.value)), d.offset)))

\* mask & 0x1, mask & 0x2 on a u32 pair
HasSize(mask) == mask[2] % 2 = 1

HasMtime(mask) == (mask[2] \div 2) % 2 = 1

\* _decode_attributes
decode_attributes(data, off) ==
    AndThen(decode_tag(data, off, ATTRIBUTE, "Invalid attribute type"), LAMBDA t :
    AndThen(decode_uint32(data, t.offset), LAMBDA m :
    AndThen(IF HasSize(m.value) THEN decode_uint64(data, m.offset)
            ELSE Ok(0, m.offset), LAMBDA sz :
    AndThen(IF HasMtime(m.value) THEN decode_uint64(data, sz.offset)
            ELSE Ok(0, sz.offset), LAMBDA mt :
        Ok([k \in (IF HasSize(m.value) THEN {"size"} ELSE {})
                     \cup (IF HasMtime(m.value) THEN {"mtime"} ELSE {}) |->
                IF k = "size" THEN sz.value ELSE mt.value],
           mt.offset)))))

\* the list comprehension of _decode_array over file handles: n more items
RECURSIVE decode_filehandles(_, _, _, _)
decode_filehandles(data, off, n, acc) ==
    IF n = 0 THEN Ok(acc, off)
    ELSE AndThen(decode_filehandle(data, off), LAMBDA r :
             decode_filehandles(data, r.offset, n - 1, Append(acc, r.value)))

\* _decode_data_server
decode_data_server(data, off) ==
    AndThen(decode_deviceid(data, off), LAMBDA dev :
    AndThen(decode_stateid(data, dev.offset), LAMBDA sid :
    AndThen(decode_uint32(data, sid.offset), LAMBDA cnt :
    AndThen(decode_filehandles(data, cnt.offset,
                               Declared(cnt.value, Len(data)), <<>>), LAMBDA hs :
    AndThen(decode_attributes(data, hs.offset), LAMBDA at :
        Ok([device_id |-> dev.value, state_id |-> sid.value,
            file_handles |-> hs.value, attributes |-> at.value], at.offset))))))

\* the list comprehension of _decode_array over data servers
RECURSIVE decode_data_servers(_, _, _, _)
decode_data_servers(data, off, n, acc) ==
    IF n = 0 THEN Ok(acc, off)
    ELSE AndThen(decode_data_server(data, off), LAMBDA r :
             decode_data_servers(data, r.offset, n - 1, Append(acc, r.value)))

\* _decode_mirror
decode_mirror(data, off) ==
    AndThen(decode_string(data, off), LAMBDA id :
    AndThen(decode_uint32(data, id.offset), LAMBDA cnt :
    AndThen(decode_data_servers(data, cnt.offset,
                                Declared(cnt.value, Len(data)), <<>>), LAMBDA sv :
        Ok([mirror_id |-> id.value, data_servers |-> sv.value], sv.offset))))

\* the list comprehension of _decode_array over mirrors
RECURSIVE decode_mirrors(_, _, _, _)
decode_mirrors(data, off, n, acc) ==
    IF n = 0 THEN Ok(acc, off)
    ELSE AndThen(decode_mirror(data, off), LAMBDA r :
             decode_mirrors(data, r.offset, n - 1, Append(acc, r.value)))

\* what decode_layout_wcc does with the result of its try block: the
\* dictionary is returned, or whatever was raised is wrapped in an XDRError
\* that carries the message of its cause
Wrapped(r) ==
    IF r.ok
    THEN [status |-> "returned", value |-> [mirrors |-> r.value],
          offset |-> r.offset, cause |-> ""]
    ELSE [status |-> "XDRError", value |-> <<>>,
          offset |-> r.offset, cause |-> r.error]

\* XDRDecoder(data).decode_layout_wcc()
decode_layout_wcc(data) ==
    CHOOSE y \in
        {Wrapped(x) : x \in
            {AndThen(decode_tag(data, 0, LAYOUT_WCC, "Invalid type identifier"),
                 LAMBDA t :
             AndThen(decode_uint32(data, t.offset), LAMBDA cnt :
                 decode_mirrors(data, cnt.offset,
                                Declared(cnt.value, Len(data)), <<>>)))}} : TRUE

\* Inputs of the codec.
MaxEncodes == 3                         \* encode calls on one encoder instance
MaxFieldLen == 5                        \* longest single string / opaque tried
MaxMask == 7                            \* largest attribute mask tried

DeviceA == Str(<<48, 49, 50, 51, 52, 53, 54, 55, 56, 57, 97, 98, 99, 100, 101, 102>>)
OtherA == <<1, 2, 3, 4, 5, 6, 7, 8, 9, 10, 11, 12>>

DataServer(dev, other, handles, attrs) ==
    [device_id |-> dev, state_id |-> [seqid |-> 1, other |-> other],
     file_handles |-> handles, attributes |-> attrs]

OneServer(sv) ==
    [mirrors |-> << [mirror_id |-> Str(<<109, 49>>), data_servers |-> <<sv>>] >>]

WellFormed ==
    { [mirrors |-> <<>>],
      [mirrors |-> << [mirror_id |-> Str(<<109, 49>>), data_servers |-> <<>>] >>],
      [mirrors |-> << [mirror_id |-> Str(<<>>), data_servers |-> <<>>],
                      [mirror_id |-> Str(<<109, 233>>), data_servers |->
                          <<DataServer(DeviceA, OtherA, <<>>, [mtime |-> 5])>>] >>],
      OneServer(DataServer(DeviceA, OtherA, <<>>, <<>>)),
      OneServer(DataServer(DeviceA, OtherA,
                           <<Str(<<104, 49>>), Str(<<104, 97, 110, 100, 53>>)>>,
                           [size |-> 1024, mtime |-> 5])) }

BadOther ==
    { OneServer(DataServer(DeviceA, SubSeq(OtherA, 1, 3), <<>>, <<>>)),
      OneServer(DataServer(DeviceA, OtherA \o <<13>>, <<>>, <<>>)) }

BadDevice ==
    { OneServer(DataServer(Str(SubSeq(DeviceA.text, 1, 15)), OtherA, <<>>, <<>>)),
      OneServer(DataServer(Str(DeviceA.text \o <<103>>), OtherA, <<>>, <<>>)),
      OneServer(DataServer(Str(SubSeq(DeviceA.text, 1, 15) \o <<233>>),
                           OtherA, <<>>, <<>>)) }

Descriptors == WellFormed \cup BadOther \cup BadDevice

\* what a new encoder returns for a descriptor
Encoding(d) == encode_layout_wcc(<<>>, d).bytes

\* the longest valid encoding, its proper prefixes, and copies of it with one
\* u32 (a type tag, a count or a length) overwritten
Longest ==
    Encoding(OneServer(DataServer(DeviceA, OtherA,
                           <<Str(<<104, 49>>), Str(<<104, 97, 110, 100, 53>>)>>,
                           [size |-> 1024, mtime |-> 5])))

Prefixes == {SubSeq(Longest, 1, n) : n \in 0..(Len(Longest) - 1)}

Overwrite(b, at, word) ==
    [i \in 1..Len(b) |-> IF i > at /\ i <= at + 4 THEN word[i - at] ELSE b[i]]

TagOffsets == {0, 20, 40, 64, 76, 92}       \* where Longest holds a type tag
LengthOffsets == {4, 8, 16, 60, 68, 80}     \* where it holds a count or a length

BadTags == {Overwrite(Longest, at, Pack(U32(9))) : at \in TagOffsets}

BadLengths ==
    {Overwrite(Longest, at, w) :
        at \in LengthOffsets, w \in {<<0, 0, 0, 200>>, <<255, 255, 255, 255>>}}

DecodeInputs ==
    {Encoding(d) : d \in WellFormed} \cup Prefixes \cup BadTags \cup BadLengths

\* XDREncoder()
NewEncoder ==
    /\ encoder_calls > 0
    /\ encoder_buffer' = <<>>
    /\ encoder_calls' = 0
    /\ codec_call' = [op |-> "new"]
    /\ UNCHANGED <<transportVars, poolVars, cacheVars, retryVars>>

\* encoder.encode_layout_wcc(d) on the encoder instance
Encode(d) ==
    LET r == encode_layout_wcc(encoder_buffer, d)
    IN  /\ encoder_calls < MaxEncodes
        /\ encoder_buffer' = r.buffer
        /\ encoder_calls' = encoder_calls + 1
        /\ codec_call' = [op |-> "encode", input |-> d,
                          status |-> r.status, bytes |-> r.bytes]
        /\ UNCHANGED <<transportVars, poolVars, cacheVars, retryVars>>

\* XDRDecoder(data).decode_layout_wcc()
Decode(data) ==
    LET r == decode_layout_wcc(data)
    IN  /\ codec_call' = [op |-> "decode", data |-> data, status |-> r.status,
                          value |-> r.value, offset |-> r.offset, cause |-> r.cause]
        /\ UNCHANGED <<encoder_buffer, encoder_calls>>
        /\ UNCHANGED <<transportVars, poolVars, cacheVars, retryVars>>

\* one string or variable opaque of n bytes through _encode_string /
\* _encode_variable_opaque of a new encoder, and the bytes it appended through
\* _decode_string / _decode_variable_opaque of a decoder
FieldCall(kind, n) ==
    LET bytes == [i \in 1..n |-> 96 + i]
        out == IF kind = "string" THEN encode_string(<<>>, Str(bytes)).buffer
               ELSE encode_variable_opaque(<<>>, bytes).buffer
        back == IF kind = "string" THEN decode_string(out, 0)
                ELSE decode_variable_opaque(out, 0)
    IN  /\ codec_call' = [op |-> "field", kind |-> kind, n |-> n,
                          appended |-> out, ok |-> back.ok,
                          consumed |-> back.offset, value |-> back.value]
        /\ UNCHANGED <<encoder_buffer, encoder_calls>>
        /\ UNCHANGED <<transportVars, poolVars, cacheVars, retryVars>>

\* an attribute set with the given mask through _decode_attributes, and the
\* decoded dictionary through _encode_attributes of a new encoder
AttributesCall(mask) ==
    LET data == Pack(U32(ATTRIBUTE)) \o Pack(U32(mask))
                  \o (IF mask % 2 = 1 THEN <<0, 0, 0, 0, 0, 0, 4, 0>> ELSE <<>>)
                  \o (IF (mask \div 2) % 2 = 1 THEN <<0, 0, 0, 0, 0, 0, 0, 5>> ELSE <<>>)
        r == decode_attributes(data, 0)
        again == encode_attributes(<<>>, r.value).buffer
    IN  /\ codec_call' = [op |-> "attributes", mask |-> mask, ok |-> r.ok,
                          attrs |-> r.value,
                          mask_again |-> Num(SubSeq(again, 5, 8))]
        /\ UNCHANGED <<encoder_buffer, encoder_calls>>
        /\ UNCHANGED <<transportVars, poolVars, cacheVars, retryVars>>

----------------------------------------------------------------------------
\* Initial state and the transport specification.

InitTransport ==
    /\ connected = FALSE
    /\ transport = "none"
    /\ xid_counter = <<0, 0>>
    /\ pending = <<>>
    /\ calls = <<>>
    /\ buffer = <<>>
    /\ expected_length = NoLength
    /\ hung = FALSE
    /\ wire = <<>>
    /\ sent = <<>>
    /\ delivered = <<>>

InitPool ==
    /\ active_connections = [s \in Servers |-> <<>>]
    /\ now = 0
    /\ created_count = 0
    /\ held = {}
    /\ closed = {}
    /\ last_acquire = [kind |-> "none", server |-> "", conn |-> 0]

\* LRUCache.__init__
InitCache ==
    /\ cache = <<>>
    /\ usage = <<>>
    /\ last_get = [key |-> 0, result |-> NoValue]

InitRetry ==
    /\ retry_config = NoConfig
    /\ operation_metrics = <<>>
    /\ executions = [id \in OpIds |-> IdleExecution]

\* XDREncoder.__init__
InitCodec ==
    /\ encoder_buffer = <<>>
    /\ encoder_calls = 0
    /\ codec_call = [op |-> "none"]

Init == InitTransport /\ InitPool /\ InitCache /\ InitRetry /\ InitCodec

NextTransport ==
    \/ Connect
    \/ Close
    \/ SendStart
    \/ \E t \in BurstTargets : SendBurst(t)
    \/ \E c \in 1..Len(calls) : TimeoutFire(c)
    \/ \E c \in 1..Len(calls) : TimeoutRaise(c)
    \/ \E c \in 1..Len(calls) : SendReturn(c)
    \/ \E b \in PeerBodies : PeerWrite(b)
    \/ \E n \in 1..MaxStream : data_received(n)

SpecTransport == Init /\ [][NextTransport]_vars

\* The event loop runs what is ready: the timer of wait_for fires while the
\* future is not done, the except clause runs after the cancellation, and
\* wait_for hands a set result back.  While data_received spins, the loop
\* is not given back and none of them runs (their guards need ~hung).
SpecTransportLive ==
    /\ SpecTransport
    /\ \A c \in 1..MaxCalls :
          /\ WF_vars(c <= Len(calls) /\ TimeoutFire(c))
          /\ WF_vars(c <= Len(calls) /\ TimeoutRaise(c))
          /\ WF_vars(c <= Len(calls) /\ SendReturn(c))

NextPool ==
    \/ \E s \in Servers : Acquire(s)
    \/ \E s \in Servers, c \in 1..MaxCreated : Release(s, c)
    \/ Cleanup
    \/ Tick

SpecPool == Init /\ [][NextPool]_vars

NextCache ==
    \/ \E k \in Keys, p \in Puts : cache_layout(k, p[1], p[2])
    \/ \E k \in Keys : get_cached_layout(k)
    \/ Tick

SpecCache == Init /\ [][NextCache]_vars

NextRetry ==
    \/ \E cfg \in RetryConfigs : NewManager(cfg)
    \/ \E id \in OpIds : ExecuteStart(id)
    \/ \E id \in OpIds, kind \in OutcomeKinds : OperationEnds(id, kind)
    \/ \E id \in OpIds : SleepEnds(id)
    \/ Tick

SpecRetry == Init /\ [][NextRetry]_vars

NextEncoder ==
    \/ NewEncoder
    \/ \E d \in Descriptors : Encode(d)

SpecEncoder == Init /\ [][NextEncoder]_vars

NextDecoder ==
    \/ \E data \in DecodeInputs : Decode(data)
    \/ \E kind \in {"string", "opaque"}, n \in 0..MaxFieldLen : FieldCall(kind, n)
    \/ \E mask \in 0..MaxMask : AttributesCall(mask)

SpecDecoder == Init /\ [][NextDecoder]_vars

----------------------------------------------------------------------------
\* Properties of the transport.

\* the frames a step hands to handle_response
NewFrames == SubSeq(delivered', Len(delivered) + 1, Len(delivered'))

\* xid has a registered waiter that still awaits its reply
Live(x) == x \in DOMAIN pending /\ calls[pending[x]].status = "awaiting"

\* the (xid, payload) pairs of a log
FramesOf(log) == [i \in 1..Len(log) |-> <<log[i].xid, log[i].data>>]

\* the messages of at least 4 bytes among msgs, as (xid, payload) pairs
RECURSIVE HandedOver(_)
HandedOver(msgs) ==
    IF msgs = <<>> THEN <<>>
    ELSE IF Len(Head(msgs)) < 4 THEN HandedOver(Tail(msgs))
         ELSE <<(<<Unpack(Take(Head(msgs), 4)), Drop(Head(msgs), 4)>>)>>
              \o HandedOver(Tail(msgs))

\* the frames handed over when the stream s arrives in a single event
SingleEventFrames(s) == HandedOver(ReceiveLoop(s, NoLength, <<>>).msgs)

\* C1: no send is ever issued transaction id 0, also when the counter wraps.
C1_NeverIssuesXidZero ==
    \A c \in 1..Len(calls) : calls[c].xid # <<0, 0>>

\* C2: the registry holds the waiter of every request that still awaits its
\* reply: no later send has replaced it and no ending send has removed it.
C2_OneWaiterPerLiveXid ==
    \A c \in 1..Len(calls) :
        calls[c].status = "awaiting" =>
            /\ calls[c].xid \in DOMAIN pending
            /\ pending[calls[c].xid] = c

\* C3: however the stream is split into data_received events, once the
\* events are over the frames handed to the transport are those of the
\* whole stream arriving in one event.
C3_FragmentationIndependent ==
    (hung \/ wire = <<>>) => FramesOf(delivered) = SingleEventFrames(sent)

\* C4: a timed-out send fails with the timeout transport error and removes
\* its own waiter; a reply with the id of a timed-out send resolves nothing.
C4_TimeoutRemovesOwnWaiter ==
    [][ /\ \A c \in 1..Len(calls) :
              (calls[c].status = "cancelled" /\ calls'[c].status # "cancelled") =>
                  /\ calls'[c].status = "timeout_error"
                  /\ calls[c].xid \in DOMAIN pending
                  /\ pending[calls[c].xid] = c
                  /\ pending' = Unregister(pending, calls[c].xid)
        /\ \A i \in 1..Len(NewFrames) :
              (\E c \in 1..Len(calls) :
                    /\ calls[c].xid = NewFrames[i].xid
                    /\ calls[c].status \in {"timeout_error", "key_error"}) =>
                  /\ NewFrames[i].waiter = 0
                  /\ \A c \in 1..Len(calls) :
                        calls[c].status \in {"timeout_error", "key_error"} =>
                            calls'[c] = calls[c]
      ]_vars

\* C5: the frames of an event resolve exactly the live waiters registered
\* under their transaction ids, each with the payload of the first frame
\* carrying its id, and remove them from the registry; every other waiter
\* and every other call is left unchanged.
C5_ReplyResolvesItsWaiter ==
    [][ LET fs == NewFrames
            Hit(c) == \E i \in 1..Len(fs) :
                          Live(fs[i].xid) /\ pending[fs[i].xid] = c
            First(x) == CHOOSE i \in 1..Len(fs) :
                          fs[i].xid = x /\ \A k \in 1..(i - 1) : fs[k].xid # x
        IN  fs # <<>> =>
              /\ Len(calls') = Len(calls)
              /\ \A c \in 1..Len(calls) :
                    IF Hit(c)
                    THEN /\ calls'[c].status = "resolved"
                         /\ calls'[c].response = fs[First(calls[c].xid)].data
                         /\ calls'[c].xid = calls[c].xid
                         /\ calls[c].xid \notin DOMAIN pending'
                    ELSE calls'[c] = calls[c]
              /\ DOMAIN pending' \subseteq DOMAIN pending
              /\ \A x \in DOMAIN pending :
                    (~Live(x) \/ \A i \in 1..Len(fs) : fs[i].xid # x) =>
                        x \in DOMAIN pending' /\ pending'[x] = pending[x]
      ]_vars

\* two requests in flight were resolved in the reverse of their send order
C5_Witness ==
    /\ Len(calls) >= 2
    /\ calls[1].status \in {"resolved", "returned"}
    /\ calls[2].status \in {"resolved", "returned"}
    /\ calls[1].response = <<7>>
    /\ \E i, j \in 1..Len(delivered) :
          i < j /\ delivered[i].waiter = 2 /\ delivered[j].waiter = 1

\* C6: a frame whose transaction id has no live waiter is dropped: an event
\* holding only such frames changes neither the registry nor any call, every
\* complete frame of the event is still handed over, and a live waiter whose
\* reply follows a dropped frame is resolved.
C6_UnmatchedFrameDropped ==
    [][ Len(wire') < Len(wire) =>
          LET fs == NewFrames
              n  == Len(wire) - Len(wire')
              r  == ReceiveLoop(buffer \o Take(wire, n), expected_length, <<>>)
          IN  /\ FramesOf(fs) = HandedOver(r.msgs)
              /\ (\A i \in 1..Len(fs) : ~Live(fs[i].xid)) =>
                     pending' = pending /\ calls' = calls
              /\ \A i, j \in 1..Len(fs) :
                     (i < j /\ ~Live(fs[i].xid) /\ Live(fs[j].xid)) =>
                         /\ calls'[pending[fs[j].xid]].status = "resolved"
                         /\ fs[i].xid \in DOMAIN pending =>
                               (fs[i].xid \in DOMAIN pending'
                                /\ pending'[fs[i].xid] = pending[fs[i].xid])
      ]_vars

\* a frame without waiter was dropped and a later frame resolved its waiter
C6_Witness ==
    \E i, j \in 1..Len(delivered) :
        /\ i < j
        /\ delivered[i].waiter = 0
        /\ delivered[j].waiter # 0
        /\ calls[delivered[j].waiter].status \in {"resolved", "returned"}

----------------------------------------------------------------------------
\* Properties of the connection pool.

\* the connection at position i of pool is idle and its idle time at t is
\* within the idle timeout
IdleFresh(pool, i, t) == ~pool[i].in_use /\ t - pool[i].last_used <= IdleTimeout

\* the connection at position i of pool has been idle beyond the timeout
IdleExpired(pool, i, t) == ~pool[i].in_use /\ t - pool[i].last_used > IdleTimeout

\* C7: the pool never tracks more than pool_size connections for a
\* destination.
C7_PoolBound ==
    \A s \in Servers : Len(active_connections[s]) <= PoolSize

\* a full pool holding a connection idle beyond the timeout has refused an
\* acquire
C7_Witness ==
    \E s \in Servers :
        /\ Len(active_connections[s]) = PoolSize
        /\ \E i \in 1..Len(active_connections[s]) :
              IdleExpired(active_connections[s], i, now)
        /\ last_acquire = [kind |-> "exhausted", server |-> s, conn |-> 0]

\* C8: an acquire never returns a connection idle beyond idle_timeout; when
\* every connection of the pool has been released and has gone idle beyond
\* the timeout, the acquire creates and returns a new connection.
C8_ExpiredIdleReplacedByNew ==
    [][ \A s \in Servers :
          LET pool == active_connections[s]
          IN  Acquire(s) =>
                /\ last_acquire'.kind = "reused" =>
                      \A i \in 1..Len(pool) :
                          pool[i].connection = last_acquire'.conn =>
                              ~IdleExpired(pool, i, now)
                /\ ( /\ pool # <<>>
                     /\ \A i \in 1..Len(pool) : IdleExpired(pool, i, now) ) =>
                      /\ last_acquire'.kind = "created"
                      /\ \A i \in 1..Len(pool) :
                            pool[i].connection # last_acquire'.conn
      ]_vars

\* C9: an acquire on a destination with pool_size connections, all in use,
\* fails with the pool-exhausted error in the same step, creates nothing and
\* leaves the connection table unchanged.
C9_ExhaustedFailsFast ==
    [][ \A s \in Servers :
          LET pool == active_connections[s]
          IN  ( /\ Acquire(s)
                /\ Len(pool) = PoolSize
                /\ \A i \in 1..Len(pool) : pool[i].in_use ) =>
                  /\ last_acquire' = [kind |-> "exhausted", server |-> s, conn |-> 0]
                  /\ active_connections' = active_connections
                  /\ created_count' = created_count
                  /\ held' = held
      ]_vars

\* pool_size acquires are outstanding and the next one has failed
C9_Witness ==
    /\ last_acquire.kind = "exhausted"
    /\ Len(active_connections[last_acquire.server]) = PoolSize
    /\ \A i \in 1..PoolSize : active_connections[last_acquire.server][i].in_use
    /\ Cardinality({h \in held : h[1] = last_acquire.server}) >= PoolSize

\* C10: an acquire on a destination that has a released connection still
\* within its idle timeout returns a tracked idle connection, now marked
\* in use, and creates none: the pool does not grow.
C10_ReleasedIsReused ==
    [][ \A s \in Servers :
          LET pool == active_connections[s]
          IN  ( /\ Acquire(s)
                /\ \E i \in 1..Len(pool) : IdleFresh(pool, i, now) ) =>
                  /\ last_acquire'.kind = "reused"
                  /\ last_acquire'.server = s
                  /\ \E i \in 1..Len(pool) :
                        /\ pool[i].connection = last_acquire'.conn
                        /\ IdleFresh(pool, i, now)
                        /\ active_connections'[s][i].in_use
                        /\ active_connections'[s][i].connection = pool[i].connection
                  /\ \A x \in Servers :
                        Len(active_connections'[x]) = Len(active_connections[x])
                  /\ created_count' = created_count
      ]_vars

\* a connection released earlier has been handed out again
C10_Witness ==
    /\ last_acquire.kind = "reused"
    /\ \E i \in 1..Len(active_connections[last_acquire.server]) :
          LET info == active_connections[last_acquire.server][i]
          IN  /\ info.connection = last_acquire.conn
              /\ info.in_use
              /\ info.last_used > info.created
              /\ <<last_acquire.server, info.connection>> \in held

\* the connection conn is tracked in the pool of s
Tracked(s, conn) ==
    \E i \in 1..Len(active_connections[s]) :
        active_connections[s][i].connection = conn

\* C11: an acquire never returns a connection whose in-use flag is set or
\* that another caller still holds: unreleased acquires hold distinct
\* connections.
C11_ExclusiveLending ==
    [][ \A s \in Servers :
          LET pool == active_connections[s]
          IN  (Acquire(s) /\ last_acquire'.kind # "exhausted") =>
                /\ \A i \in 1..Len(pool) :
                      pool[i].connection = last_acquire'.conn => ~pool[i].in_use
                /\ \A h \in held : h[2] # last_acquire'.conn
                /\ Cardinality(held') = Cardinality(held) + 1
      ]_vars

\* two callers hold two connections of one destination, one of them a
\* connection that was lent before
C11_Witness ==
    \E s \in Servers :
        /\ Cardinality({h \in held : h[1] = s}) = 2
        /\ last_acquire.kind = "reused"
        /\ last_acquire.server = s
        /\ \A i \in 1..Len(active_connections[s]) : active_connections[s][i].in_use

\* C12: the release at the end of a scoped use marks the connection idle
\* and timestamps it, so once no scoped use is in progress no connection of
\* the pool is marked in use; a failed acquisition releases nothing.
C12_ScopedRelease ==
    [][ /\ \A s \in Servers : \A c \in 1..MaxCreated :
              (Release(s, c) /\ Tracked(s, c)) =>
                  \A i \in 1..Len(active_connections[s]) :
                      active_connections[s][i].connection = c =>
                          /\ ~active_connections'[s][i].in_use
                          /\ active_connections'[s][i].last_used = now
        /\ held' = {} =>
              \A s \in Servers : \A i \in 1..Len(active_connections'[s]) :
                  ~active_connections'[s][i].in_use
        /\ \A s \in Servers :
              (Acquire(s) /\ last_acquire'.kind = "exhausted") =>
                  held' = held /\ active_connections' = active_connections
      ]_vars

\* every scoped use has ended and a connection released after its creation
\* tick is tracked idle
C12_Witness ==
    /\ held = {}
    /\ \E s \in Servers : \E i \in 1..Len(active_connections[s]) :
          /\ ~active_connections[s][i].in_use
          /\ active_connections[s][i].last_used > active_connections[s][i].created

\* C13: cleanup closes every tracked connection, idle or in use, and leaves
\* no connection tracked; the release of a connection that is not tracked
\* any more does not put it back.
C13_CleanupClearsPool ==
    [][ /\ Cleanup =>
              /\ \A s \in Servers : \A i \in 1..Len(active_connections[s]) :
                    active_connections[s][i].connection \in closed'
              /\ \A s \in Servers : active_connections'[s] = <<>>
        /\ \A s \in Servers : \A c \in 1..MaxCreated :
              (Release(s, c) /\ ~Tracked(s, c)) =>
                  active_connections' = active_connections
      ]_vars

\* a connection in use was closed by cleanup, its caller has not released
\* it yet, and the pool tracks nothing
C13_Witness ==
    /\ \A s \in Servers : active_connections[s] = <<>>
    /\ held # {}
    /\ \A h \in held : h[2] \in closed

----------------------------------------------------------------------------
\* Properties of the cache.

\* the entry cache_layout(key, v, ttl) writes at the current time
Written(v, ttl) == [data |-> v, timestamp |-> now, ttl |-> ttl]

\* C14: after any sequence of cache_layout and get_cached_layout calls the
\* cache holds at most its configured capacity of entries.
C14_CacheBound == Cardinality(DOMAIN cache) <= CacheCapacity

\* a full cache that has dropped a key which a lookup once found
C14_Witness ==
    /\ Cardinality(DOMAIN cache) = CacheCapacity
    /\ last_get.key \in Keys \ DOMAIN cache
    /\ last_get.result = "v1"

\* C15: get_cached_layout(key) returns the value stored by the most recent
\* cache_layout(key, v, ttl) exactly when the entry is still present and now
\* minus its insertion time is at most ttl, and reports absent otherwise.  The
\* entry of a key is what cache_layout wrote (value, insertion time, ttl) and
\* only a later cache_layout of that key changes it; a lookup answers from it.
C15_GetReturnsLatestPut ==
    [][ \A k \in Keys :
          /\ get_cached_layout(k) =>
                last_get' = [key |-> k,
                             result |-> IF /\ k \in DOMAIN cache
                                           /\ now - cache[k].timestamp <= cache[k].ttl
                                        THEN cache[k].data ELSE NoValue]
          /\ \A p \in Puts :
                cache_layout(k, p[1], p[2]) => cache'[k] = Written(p[1], p[2])
          /\ (k \in DOMAIN cache /\ k \in DOMAIN cache' /\ cache'[k] # cache[k]) =>
                \E p \in Puts : cache_layout(k, p[1], p[2])
      ]_vars

\* a lookup answered at the very end of the entry's lifetime, and the entry is
\* now expired but still stored
C15_Witness ==
    \E k \in DOMAIN cache :
        /\ last_get = [key |-> k, result |-> cache[k].data]
        /\ now - cache[k].timestamp > cache[k].ttl

\* C16: cache_layout of a new key into a full cache evicts exactly the least
\* recently used entry before inserting; cache_layout of a key already present
\* replaces its value, insertion time and ttl, moves it to the most recent
\* position and evicts nothing.
C16_EvictsLeastRecentlyUsed ==
    [][ \A k \in Keys, p \in Puts :
          cache_layout(k, p[1], p[2]) =>
            /\ cache'[k] = Written(p[1], p[2])
            /\ (k \notin DOMAIN cache /\ Cardinality(DOMAIN cache) = CacheCapacity) =>
                  /\ DOMAIN cache' = (DOMAIN cache \ {Head(usage)}) \cup {k}
                  /\ Head(usage) \in DOMAIN cache
                  /\ \A x \in DOMAIN cache \ {Head(usage)} : cache'[x] = cache[x]
                  /\ usage' = Append(Tail(usage), k)
            /\ k \in DOMAIN cache =>
                  /\ DOMAIN cache' = DOMAIN cache
                  /\ \A x \in DOMAIN cache \ {k} : cache'[x] = cache[x]
                  /\ usage' = Append(SelectSeq(usage, LAMBDA x : x # k), k)
      ]_vars

\* a full cache from which a key that a lookup once found has been evicted and
\* all of whose entries were written at the current time
C16_Witness ==
    /\ Cardinality(DOMAIN cache) = CacheCapacity
    /\ last_get.key \in Keys \ DOMAIN cache
    /\ last_get.result = "v2"
    /\ \A i \in 1..Len(usage) : cache[usage[i]].timestamp = now

----------------------------------------------------------------------------
\* Properties of the retry engine.

Transient == {"transport", "state"}     \* transport and connection-state errors

RECURSIVE Sum(_)
Sum(seq) == IF seq = <<>> THEN 0 ELSE Head(seq) + Sum(Tail(seq))

\* every invocation of the call so far failed with a transient error
AllTransient(e) ==
    /\ e.attempts # <<>>
    /\ \A i \in 1..Len(e.attempts) : e.attempts[i] \in Transient

TransientFailures(e) ==
    Cardinality({i \in 1..Len(e.attempts) : e.attempts[i] \in Transient})

\* C21: once execute_with_recovery has ended for an operation id, whatever
\* the outcome, operation_metrics holds for the id a record whose end time is
\* set, whose success flag is true exactly when a result was returned, whose
\* retry count is the number of failed attempts that were retried or gave up,
\* and which on every failure carries the text of the error that was raised.
C21_MetricsRecordEveryOutcome ==
    \A id \in OpIds :
        LET e == executions[id]
        IN  e.pc = "done" =>
              /\ id \in DOMAIN operation_metrics
              /\ operation_metrics[id].end_time # NoTime
              /\ operation_metrics[id].success =
                    (e.outcome.kind = "returned" /\ e.outcome.value[1] = "result")
              /\ operation_metrics[id].retries = TransientFailures(e)
              /\ e.outcome.kind = "raised" =>
                    operation_metrics[id].error = e.outcome.value

----------------------------------------------------------------------------
\* close() of the transport.

\* C30: close() is idempotent and safe in either state: on an instance that
\* never connected it changes nothing, and a close after a close leaves the
\* instance as the first close left it, not connected.
C30_CloseIdempotent ==
    [][ Close =>
          /\ connected' = FALSE
          /\ transport = "none" => UNCHANGED transportVars
          /\ transport = "closed" => UNCHANGED transportVars
          /\ transport = "open" => transport' = "closed"
      ]_vars

\* a closed instance, on which close() can run again
C30_Witness ==
    /\ transport = "closed"
    /\ connected = FALSE
    /\ ENABLED Close

----------------------------------------------------------------------------
\* Properties of the codec.

\* the data servers of a descriptor
ServersOf(d) ==
    UNION {{d.mirrors[i].data_servers[j] : j \in 1..Len(d.mirrors[i].data_servers)} :
              i \in 1..Len(d.mirrors)}

\* C22: for every well-formed layout descriptor d, decoding the bytes that
\* encoding d produced yields a descriptor equal to d.
C22_RoundTrip ==
    \A d \in WellFormed :
        (codec_call.op = "decode" /\ codec_call.data = Encoding(d)) =>
            /\ codec_call.status = "returned"
            /\ codec_call.value = d

\* C23: encode_layout_wcc raises a codec error and returns no bytes whenever
\* some data server's state-id `other` is not exactly 12 bytes, shorter or
\* longer.
C23_StateOtherWidthEnforced ==
    (/\ codec_call.op = "encode"
     /\ \E sv \in ServersOf(codec_call.input) :
            /\ Len(Utf8(sv.device_id.text)) = DeviceIdWidth
            /\ Len(sv.state_id.other) # StateOtherWidth) =>
        /\ codec_call.status = "XDRError"
        /\ codec_call.bytes = <<>>

C25_TruncationSafe ==
    codec_call.op = "decode" =>
        /\ codec_call.offset <= Len(codec_call.data)
        /\ codec_call.data \in Prefixes \cup BadLengths =>
              /\ codec_call.status = "XDRError"
              /\ codec_call.cause = EndOfData

\* C26: a leading type tag that differs from the expected one makes decode
\* fail with an error whose kind differs from the kind of the error raised
\* for a buffer that ends early.
C26_TagMismatchIsItsOwnKind ==
    (codec_call.op = "decode" /\ codec_call.data \in BadTags) =>
        /\ codec_call.status # "returned"
        /\ codec_call.status # decode_layout_wcc(<<>>).status

\* C27: mask bits of an attribute set survive decoding and encoding again,
\* the unknown and reserved ones included.
C27_MaskBitsRoundTrip ==
    codec_call.op = "attributes" =>
        /\ codec_call.ok
        /\ codec_call.mask_again = codec_call.mask

\* C28: the bytes appended for a string or variable opaque of n bytes are the
\* 4-byte count, the n bytes and 0 to 3 zero bytes, a multiple of 4 in all,
\* and the decoder consumes exactly these bytes for the field.
C28_PaddingToFour ==
    codec_call.op = "field" =>
        LET total == Len(codec_call.appended)
            pad   == total - 4 - codec_call.n
        IN  /\ total % 4 = 0
            /\ pad \in 0..3
            /\ SubSeq(codec_call.appended, 1, 4) = <<0, 0, 0, codec_call.n>>
            /\ \A i \in (4 + codec_call.n + 1)..total : codec_call.appended[i] = 0
            /\ codec_call.ok
            /\ codec_call.consumed = total
            /\ Len(IF codec_call.kind = "string" THEN codec_call.value.text
                   ELSE codec_call.value) = codec_call.n

\* a field of 5 bytes took 12 bytes, and the decoder consumed 12
C28_Witness ==
    /\ codec_call.op = "field"
    /\ codec_call.n = 5
    /\ Len(codec_call.appended) = 12
    /\ codec_call.consumed = 12

\* C29: the bytes encode_layout_wcc(d) returns depend only on d, whatever the
\* encoder instance has encoded or failed to encode before.
C29_EncodeStateless ==
    (codec_call.op = "encode" /\ codec_call.status = "returned") =>
        codec_call.bytes = Encoding(codec_call.input)

----------------------------------------------------------------------------
\* Termination of the reassembly and completion of the sends.

\* C31: every data_received call terminates, whatever the buffer holds and
\* however the stream is cut: it hands over the complete frames and returns
\* with the partial frame kept for the next event.
C31_DataReceivedTerminates ==
    [][(\E n \in 1..MaxStream : data_received(n)) => ~hung']_vars

\* a call has ended as the claim says, and its waiter is gone
Completed(c) ==
    /\ c <= Len(calls)
    /\ calls[c].status \in {"returned", "timeout_error"}
    /\ \A x \in DOMAIN pending : pending[x] # c

\* C32: every send on a connected transport eventually completes, with the
\* reply or with the timeout transport error, its waiter then being out of
\* the registry; once all sends have completed the registry is empty.
C32_EverySendCompletes ==
    /\ \A c \in 1..MaxCalls :
          (c <= Len(calls) /\ calls[c].status = "awaiting") ~> Completed(c)
    /\ []((\A c \in 1..Len(calls) : Completed(c)) => DOMAIN pending = {})

----------------------------------------------------------------------------
\* Expired entries, lookups that report absent, and the recency list.

\* the entry of k is stored and past its ttl
Expired(k) == k \in DOMAIN cache /\ is_expired(cache[k])

\* C33: a lookup of an expired entry reports absent and does not remove the
\* entry; an expired entry stays in the table, counting toward capacity,
\* until a cache_layout evicts it for capacity or writes its key again.
C33_ExpiredEntryStays ==
    [][ \A k \in Keys :
          /\ (get_cached_layout(k) /\ Expired(k)) =>
                /\ last_get' = [key |-> k, result |-> NoValue]
                /\ cache' = cache
          /\ Expired(k) =>
                \/ k \in DOMAIN cache' /\ cache'[k] = cache[k]
                \/ \E p \in Puts : cache_layout(k, p[1], p[2])
                \/ \E j \in Keys \ DOMAIN cache, p \in Puts :
                      /\ cache_layout(j, p[1], p[2])
                      /\ Cardinality(DOMAIN cache) = CacheCapacity
                      /\ Head(usage) = k
      ]_vars

\* a lookup has just reported an expired entry absent, and the entry still
\* fills a place of the full cache
C33_Witness ==
    /\ last_get.key \in DOMAIN cache
    /\ Expired(last_get.key)
    /\ last_get.result = NoValue
    /\ usage[Len(usage)] = last_get.key
    /\ Cardinality(DOMAIN cache) = CacheCapacity

\* C34: a call of execute_with_recovery that returns normally returns the
\* result of a successful invocation of the operation, whatever the retry
\* configuration: the operation was invoked and its last invocation
\* succeeded.
C34_ReturnsOnlyAfterSuccess ==
    \A id \in OpIds :
        LET e == executions[id]
        IN  (e.pc = "done" /\ e.outcome.kind = "returned") =>
                /\ e.attempts # <<>>
                /\ e.attempts[Len(e.attempts)] = "ok"
                /\ e.outcome.value = <<"result", Len(e.attempts)>>

\* C35: a get_cached_layout that reports absent, the key being unknown or
\* its entry expired, leaves the entries and the recency order as they were.
C35_AbsentLookupChangesNothing ==
    [][ \A k \in Keys :
          (get_cached_layout(k) /\ last_get'.result = NoValue) =>
              /\ cache' = cache
              /\ usage' = usage
      ]_vars

\* C36: in every reachable state the recency list holds exactly the keys of
\* the entry table, each exactly once.
C36_UsageListsTheKeys ==
    /\ {usage[i] : i \in 1..Len(usage)} = DOMAIN cache
    /\ Len(usage) = Cardinality(DOMAIN cache)

\* a full cache after an eviction whose least recent key was moved to the
\* most recent place by a lookup
C36_Witness ==
    /\ Cardinality(DOMAIN cache) = CacheCapacity
    /\ Keys \ DOMAIN cache # {}
    /\ last_get.result # NoValue
    /\ usage[Len(usage)] = last_get.key
    /\ cache[usage[1]].timestamp > cache[last_get.key].timestamp

====
